---- MODULE Spec2Model ----
(***************************************************************************)
(* Model of kong_pdk/server.py: the PluginServer coordinator, its two      *)
(* tables (instances, events), their semaphores (i_lock, e_lock), the      *)
(* expiry sweeper (_clear_expired_plugins), the workers launched by        *)
(* handle_event (_handler_event_func) and the per-event duplex channel in  *)
(* both backends (multiprocessing.Pipe and gevent.queue.Channel).          *)
(*                                                                         *)
(* Callers are concurrent RPC requests.  A caller runs atomically from one *)
(* suspension point to the next: a lock.acquire that has to wait, ch.put,  *)
(* ch.get, gsleep.  An outcome (result pair or exception) stays visible in *)
(* the caller's record until the wrapper releases or the call returns.     *)
(* Time is kept as ages: idle[iid] is "now - last active" saturated at     *)
(* Ttl + 1, which is all is_expired(ttl) looks at.                         *)
(***************************************************************************)
EXTENDS Integers, Sequences, FiniteSets, TLC

\* ------------------------------------------------------------------ bounds
NCallers == 2
MaxInstances == 2
MaxEvents == 2
MaxCalls == 1
Ttl == 1

\* --------------------------------------------------------------- constants
MSG_RET == "ret"

Callers == 1..NCallers
SweeperId == 0
NoOne == -1

PluginNames == {"p"}
RequestNames == {"p", "q"}
PhasesOf(name) == {"access"}
EventNames == {"access", "bogus"}
Payloads == {"nil", "v"}

VARIABLES
    multiprocess,   \* PluginServer.multiprocess, fixed at construction
    instances,      \* self.instances : iid -> [name, idle]
    instance_id,    \* self.instance_id
    i_lock,         \* self.i_lock : NoOne when free, else who acquired it
    events,         \* self.events : eid -> channel
    event_id,       \* self.event_id
    e_lock,         \* self.e_lock
    chan,           \* the channels created so far (a sequence, index = channel)
    wk,             \* the worker launched on each channel
    cs,             \* each caller's position, locals and last outcome
    sw,             \* the sweeper greenlet: position and remaining sleep
    started,        \* history: Ids returned by successful start_instance
    allocated,      \* history: event ids taken by handle_event
    evInst,         \* history: eid -> InstanceId of the event
    closedDone,     \* history: iids whose close_instance (on a live instance) finished
    retBy           \* history: eid -> operation whose ch.get() returned 'ret'

vars == << multiprocess, instances, instance_id, i_lock, events, event_id,
           e_lock, chan, wk, cs, sw, started, allocated, evInst, closedDone,
           retBy >>

tables == << instances, instance_id, events, event_id >>
hist == << started, allocated, evInst, closedDone, retBy >>

\* ---------------------------------------------------------------- messages
Msg(kind, ok, err, w, n) == [kind |-> kind, ok |-> ok, err |-> err, w |-> w, n |-> n]
NoMsg == Msg("none", "nil", "nil", 0, 0)
\* what the facade sends for the n-th outward call of the worker on channel w
CallMsg(w, n) == Msg("call", "nil", "nil", w, n)
\* ch.put(MSG_RET) of the worker on channel w
RetMsg(w) == Msg(MSG_RET, "nil", "nil", w, 0)
\* the two-slot tuple _step puts on the channel
ResultMsg(dd, is_error) ==
    IF is_error THEN Msg("result", "nil", dd, 0, 0)
                ELSE Msg("result", dd, "nil", 0, 0)

\* ----------------------------------------------------------------- results
\* (r, err) pair or raised exception of one call; id is Id / EventId
Res(op, err, id, data) == [op |-> op, err |-> err, id |-> id, data |-> data]
NoRes == Res("none", "none", -1, NoMsg)

Caller(pc, iid, eid, ch, r) == [pc |-> pc, iid |-> iid, eid |-> eid, ch |-> ch, r |-> r]
Idle == Caller("idle", -1, -1, 0, NoRes)
\* an unlocked call has produced its outcome r and is about to hand it back
Ret(r) == Caller("ret", -1, -1, 0, r)

\* ------------------------------------------------------------------ helpers
Empty == [x \in {} |-> 0]
DropKey(f, k) == [x \in DOMAIN f \ {k} |-> f[x]]
PutKey(f, k, v) == [x \in DOMAIN f \cup {k} |-> IF x = k THEN v ELSE f[x]]
Min(a, b) == IF a < b THEN a ELSE b

\* Instance.reset_expire_ts: last active := now
reset_expire_ts(tbl, iid) ==
    IF iid \in DOMAIN tbl THEN [tbl EXCEPT ![iid].idle = 0] ELSE tbl

\* Instance.is_expired(ttl): idle for longer than ttl
is_expired(ins) == ins.idle > Ttl

\* instance_status(iid), lines 182-191
instance_status(iid) ==
    IF iid \notin DOMAIN instances
    THEN Res("instance_status", "NotFound", iid, NoMsg)
    ELSE Res("instance_status", "none", iid, NoMsg)

\* ------------------------------------------------------------------- Init
Init ==
    /\ multiprocess \in BOOLEAN
    /\ instances = Empty
    /\ instance_id = 0
    /\ i_lock = NoOne
    /\ events = Empty
    /\ event_id = 0
    /\ e_lock = NoOne
    /\ chan = << >>
    /\ wk = << >>
    /\ cs = [c \in Callers |-> Idle]
    /\ sw = [pc |-> "sleep", left |-> Ttl]
    /\ started = << >>
    /\ allocated = << >>
    /\ evInst = Empty
    /\ closedDone = {}
    /\ retBy = Empty

\* ------------------------------------------------- locked_by, lines 25-40
\* lock.acquire(), line 30: possible only while the semaphore is free
CanAcquire(lock) == lock = NoOne

ReleasedNot(lock) == lock

\* lock.release(), lines 34 and 36: on return and on raise alike
Released(lock) == NoOne

ReleaseIKept(c) ==
    /\ cs[c].pc = "rel_i"
    /\ cs' = [cs EXCEPT ![c] = Idle]
    /\ UNCHANGED << multiprocess, tables, i_lock, e_lock, chan, wk, sw, hist >>

ReleaseI(c) ==
    /\ cs[c].pc = "rel_i"
    /\ i_lock' = Released(i_lock)
    /\ cs' = [cs EXCEPT ![c] = Idle]
    /\ closedDone' = IF cs[c].r.op = "close_instance" /\ cs[c].r.err # "NotFound"
                     THEN closedDone \cup {cs[c].r.id} ELSE closedDone
    /\ UNCHANGED << multiprocess, tables, e_lock, chan, wk, sw,
                    started, allocated, evInst, retBy >>

ReleaseE(c) ==
    /\ cs[c].pc = "rel_e"
    /\ e_lock' = Released(e_lock)
    /\ cs' = [cs EXCEPT ![c] = Idle]
    /\ retBy' = IF cs[c].r.data.kind = MSG_RET
                THEN PutKey(retBy, cs[c].r.id, "handle_event") ELSE retBy
    /\ UNCHANGED << multiprocess, tables, i_lock, chan, wk, sw,
                    started, allocated, evInst, closedDone >>

\* an unlocked method returns (or raises) to the RPC layer
Return(c) ==
    /\ cs[c].pc = "ret"
    /\ cs' = [cs EXCEPT ![c] = Idle]
    /\ UNCHANGED << multiprocess, tables, i_lock, e_lock, chan, wk, sw, hist >>

\* ------------------------------------------- get_status, lines 115-137
GetStatus(c) ==
    /\ cs[c].pc = "idle"
    /\ CanAcquire(i_lock)
    /\ i_lock' = c
    /\ LET bad == \E iid \in DOMAIN instances : instance_status(iid).err # "none"
       IN cs' = [cs EXCEPT ![c] = Caller("rel_i", -1, -1, 0,
                    Res("get_status", IF bad THEN "PluginServerException" ELSE "none",
                        -1, NoMsg))]
    /\ UNCHANGED << multiprocess, tables, e_lock, chan, wk, sw, hist >>

\* ---------------------------------------- get_plugin_info, lines 139-159
\* the raise at line 141 formats a string that has no conversion: TypeError
UnknownPluginError == "TypeError"

GetPluginInfo(c) ==
    /\ cs[c].pc = "idle"
    /\ \E name \in RequestNames :
         cs' = [cs EXCEPT ![c] = Ret(
                  Res("get_plugin_info",
                      IF name \notin PluginNames THEN UnknownPluginError ELSE "none",
                      -1, NoMsg))]
    /\ UNCHANGED << multiprocess, tables, i_lock, e_lock, chan, wk, sw, hist >>

\* ---------------------------------------- start_instance, lines 161-180
\* the instance plugin.new(config) builds: just created, so idle for 0
NewInstance(name) == [name |-> name, idle |-> 0]

FailedStartIdTaken(iid) == iid + 1

\* lines 168-170 raise before line 171 runs: the counter keeps its value
FailedStartId(iid) == iid

NextInstanceIdStuck(iid) == iid

\* line 171
NextInstanceId(iid) == iid + 1

StartInstance(c) ==
    /\ cs[c].pc = "idle"
    /\ CanAcquire(i_lock)
    /\ i_lock' = c
    /\ \E name \in RequestNames, cfgOk \in BOOLEAN, newOk \in BOOLEAN :
         IF name \notin PluginNames THEN
            /\ cs' = [cs EXCEPT ![c] = Caller("rel_i", -1, -1, 0,
                         Res("start_instance", UnknownPluginError, -1, NoMsg))]
            /\ UNCHANGED << instances, instance_id, started >>
         ELSE IF ~cfgOk THEN
            /\ cs' = [cs EXCEPT ![c] = Caller("rel_i", -1, -1, 0,
                         Res("start_instance", "JSONDecodeError", -1, NoMsg))]
            /\ instance_id' = FailedStartId(instance_id)
            /\ UNCHANGED << instances, started >>
         ELSE IF ~newOk THEN
            /\ cs' = [cs EXCEPT ![c] = Caller("rel_i", -1, -1, 0,
                         Res("start_instance", "Exception", -1, NoMsg))]
            /\ instance_id' = FailedStartId(instance_id)
            /\ UNCHANGED << instances, started >>
         ELSE
            /\ instance_id < MaxInstances
            /\ LET iid == instance_id IN
               /\ instances' = PutKey(instances, iid, NewInstance(name))
               /\ instance_id' = NextInstanceId(iid)
               /\ started' = Append(started, iid)
               /\ cs' = [cs EXCEPT ![c] = Caller("rel_i", -1, -1, 0,
                            Res("start_instance", "none", iid, NoMsg))]
    /\ UNCHANGED << multiprocess, events, event_id, e_lock, chan, wk, sw,
                    allocated, evInst, closedDone, retBy >>

\* ---------------------------------------- instance_status, lines 182-191
InstanceStatus(c) ==
    /\ cs[c].pc = "idle"
    /\ \E iid \in 0..MaxInstances :
         cs' = [cs EXCEPT ![c] = Ret(instance_status(iid))]
    /\ UNCHANGED << multiprocess, tables, i_lock, e_lock, chan, wk, sw, hist >>

\* ---------------------------------------- close_instance, lines 193-204
CloseDeleteSkipped(tbl, iid) == tbl

\* del(self.instances[iid]), line 199
CloseDelete(tbl, iid) == DropKey(tbl, iid)

\* ins.close_cb(), line 198: the close hook leaves both tables alone
close_cb(tbl, iid) == tbl

\* After the delete, lines 201 and 203 subscript the instance object
\* (ins['name']); whether that raises depends on the Instance class, so both
\* outcomes are kept.
CloseInstance(c) ==
    /\ cs[c].pc = "idle"
    /\ CanAcquire(i_lock)
    /\ i_lock' = c
    /\ \E iid \in 0..MaxInstances, sub \in {"none", "TypeError"} :
         IF iid \notin DOMAIN instances THEN
            /\ sub = "none"
            /\ cs' = [cs EXCEPT ![c] = Caller("rel_i", -1, -1, 0,
                         Res("close_instance", "NotFound", iid, NoMsg))]
            /\ UNCHANGED instances
         ELSE
            /\ instances' = CloseDelete(close_cb(instances, iid), iid)
            /\ cs' = [cs EXCEPT ![c] = Caller("rel_i", -1, -1, 0,
                         Res("close_instance", sub, iid, NoMsg))]
    /\ UNCHANGED << multiprocess, instance_id, events, event_id, e_lock,
                    chan, wk, sw, hist >>

\* -------------------------------- _clear_expired_plugins, lines 76-86
ExpiredAll(tbl) == DOMAIN tbl

\* the for loop of lines 80-85
Expired(tbl) == {iid \in DOMAIN tbl : is_expired(tbl[iid])}

\* gsleep(ttl) has run out: lines 79-85
SweeperScan ==
    /\ sw.pc = "sleep"
    /\ sw.left = 0
    /\ CanAcquire(i_lock)
    /\ i_lock' = SweeperId
    /\ instances' = [iid \in DOMAIN instances \ Expired(instances) |-> instances[iid]]
    /\ sw' = [sw EXCEPT !.pc = "release"]
    /\ UNCHANGED << multiprocess, instance_id, events, event_id, e_lock,
                    chan, wk, cs, hist >>

\* line 86, and gsleep(ttl) again
SweeperRelease ==
    /\ sw.pc = "release"
    /\ i_lock' = NoOne
    /\ sw' = [pc |-> "sleep", left |-> Ttl]
    /\ UNCHANGED << multiprocess, tables, e_lock, chan, wk, cs, hist >>

\* ------------------------------------------------------------------- time
\* one unit of time.time() passes
Tick ==
    /\ instances' = [iid \in DOMAIN instances |->
                       [instances[iid] EXCEPT !.idle = Min(@ + 1, Ttl + 1)]]
    /\ sw' = IF sw.pc = "sleep" /\ sw.left > 0
             THEN [sw EXCEPT !.left = @ - 1] ELSE sw
    /\ UNCHANGED << multiprocess, instance_id, events, event_id, i_lock, e_lock,
                    chan, wk, cs, hist >>

\* ------------------------------------------------------------- channels
\* One record per channel made by handle_event.  multiprocessing.Pipe: toW
\* and fromW are the two directions of the socket pair and closed says the
\* child end is gone.  gevent Channel: putters and getters are the queues of
\* greenlets waiting in put and in get; who = WorkerId is the channel's worker.
NewChan == [putters |-> << >>, getters |-> << >>, toW |-> << >>, fromW |-> << >>,
            closed |-> FALSE]
\* pc: where the worker is; n: outward calls made; ret: line 44 has run
Worker(pc, n) == [pc |-> pc, n |-> n, ret |-> FALSE]
WorkerId == 0
Waiting(who, item) == [who |-> who, item |-> item]
Channels == 1..Len(chan)

\* ------------------------------------------ handle_event, lines 206-241
NextEventIdStuck(eid) == eid

\* line 217
NextEventId(eid) == eid + 1

\* lines 208-235, up to the point where ch.get() suspends the caller
HandleEvent(c) ==
    /\ cs[c].pc = "idle"
    /\ CanAcquire(e_lock)
    /\ e_lock' = c
    /\ \E iid \in 0..MaxInstances, phase \in EventNames :
         IF iid \notin DOMAIN instances THEN
            /\ cs' = [cs EXCEPT ![c] = Caller("rel_e", -1, -1, 0,
                         Res("handle_event", "NotFound", -1, NoMsg))]
            /\ UNCHANGED << instances, events, event_id, chan, wk, allocated, evInst >>
         ELSE
            /\ event_id < MaxEvents
            /\ LET eid == event_id
                   ch == Len(chan) + 1
                   known == phase \in PhasesOf(instances[iid].name) IN
               /\ instances' = reset_expire_ts(instances, iid)
               /\ event_id' = NextEventId(eid)
               /\ events' = PutKey(events, eid, ch)
               /\ allocated' = Append(allocated, eid)
               /\ evInst' = PutKey(evInst, eid, iid)
               /\ IF known THEN
                     /\ wk' = Append(wk, Worker("run", 0))
                     /\ chan' = Append(chan,
                           IF multiprocess THEN NewChan
                           ELSE [NewChan EXCEPT !.getters = << c >>])
                     /\ cs' = [cs EXCEPT ![c] = Caller("he_get", iid, eid, ch, NoRes)]
                  ELSE
                     \* getattr(cls, phase) raises before the worker is launched
                     /\ wk' = Append(wk, Worker("none", 0))
                     /\ chan' = Append(chan, NewChan)
                     /\ cs' = [cs EXCEPT ![c] = Caller("rel_e", -1, -1, 0,
                                  Res("handle_event", "AttributeError", -1, NoMsg))]
    /\ UNCHANGED << multiprocess, instance_id, i_lock, sw,
                    started, closedDone, retBy >>

\* ------------------------------------------------- _step, lines 243-268
StepKnownAlways(eid) == TRUE

\* line 245
StepKnown(eid) == eid \in DOMAIN events

StepChannelAny(ev, eid) == ev[CHOOSE e \in DOMAIN ev : \A x \in DOMAIN ev : e <= x]

\* line 250: ch = self.events[eid]
StepChannel(ev, eid) == ev[eid]

\* lines 244-260: the lookup, ch.put of the two-slot result, then ch.get()
StepCall(c) ==
    /\ cs[c].pc = "idle"
    /\ \E eid \in 0..MaxEvents, dd \in Payloads, is_error \in BOOLEAN :
         IF ~StepKnown(eid) THEN
            /\ cs' = [cs EXCEPT ![c] = Ret(Res("step", "NotFound", eid, NoMsg))]
            /\ UNCHANGED chan
         ELSE IF eid \notin DOMAIN events THEN
            \* line 250 subscripts self.events
            /\ cs' = [cs EXCEPT ![c] = Ret(Res("step", "KeyError", eid, NoMsg))]
            /\ UNCHANGED chan
         ELSE LET ch == StepChannel(events, eid) IN
            IF multiprocess THEN
               IF chan[ch].closed THEN
                  /\ cs' = [cs EXCEPT ![c] = Ret(Res("step", "BrokenPipeError", eid, NoMsg))]
                  /\ UNCHANGED chan
               ELSE
                  /\ chan' = [chan EXCEPT ![ch].toW = Append(@, ResultMsg(dd, is_error))]
                  /\ cs' = [cs EXCEPT ![c] = Caller("st_get", -1, eid, ch, NoRes)]
            ELSE
               /\ chan' = [chan EXCEPT ![ch].putters =
                              Append(@, Waiting(c, ResultMsg(dd, is_error)))]
               /\ cs' = [cs EXCEPT ![c] = Caller("st_put", -1, eid, ch, NoRes)]
    /\ UNCHANGED << multiprocess, tables, i_lock, e_lock, wk, sw, hist >>

\* line 262
IsTerminal(ret) == ret.kind = MSG_RET

StepRetireNever(ev, eid, ret) == ev

\* lines 262-263
StepRetire(ev, eid, ret) == IF IsTerminal(ret) THEN DropKey(ev, eid) ELSE ev

\* ---------------------- a caller's ch.get() returns item: what runs next
\* handle_event lines 236-241, _step lines 262-268
AfterGet(caller, item) ==
    IF caller.pc = "he_get"
    THEN Caller("rel_e", -1, -1, 0, Res("handle_event", "none", caller.eid, item))
    ELSE IF IsTerminal(item) /\ caller.eid \notin DOMAIN events
    THEN Ret(Res("step", "KeyError", caller.eid, NoMsg))
    ELSE Ret(Res("step", "none", caller.eid, item))

InstancesAfterGet(caller) ==
    IF caller.pc = "he_get" THEN reset_expire_ts(instances, caller.iid) ELSE instances

EventsAfterGet(caller, item) ==
    IF caller.pc = "st_get" THEN StepRetire(events, caller.eid, item) ELSE events

RetByAfterGet(caller, item) ==
    IF caller.pc = "st_get" /\ IsTerminal(item) /\ caller.eid \in DOMAIN events
    THEN PutKey(retBy, caller.eid, "step") ELSE retBy

\* --------------------------------- _handler_event_func, lines 42-44
\* the handler makes one more outward call through the facade: ch.put(call)
WorkerCall(w) ==
    /\ wk[w].pc = "run"
    /\ wk[w].n < MaxCalls
    /\ LET m == CallMsg(w, wk[w].n + 1) IN
       IF multiprocess THEN
          /\ chan' = [chan EXCEPT ![w].fromW = Append(@, m)]
          /\ wk' = [wk EXCEPT ![w] = Worker("get", wk[w].n + 1)]
       ELSE
          /\ chan' = [chan EXCEPT ![w].putters = Append(@, Waiting(WorkerId, m))]
          /\ wk' = [wk EXCEPT ![w] = Worker("put", wk[w].n + 1)]
    /\ UNCHANGED << multiprocess, tables, i_lock, e_lock, cs, sw, hist >>

\* on a Pipe: the facade's recv returns the next result
WorkerRecv(w) ==
    /\ multiprocess
    /\ wk[w].pc = "get"
    /\ chan[w].toW # << >>
    /\ chan' = [chan EXCEPT ![w].toW = Tail(@)]
    /\ wk' = [wk EXCEPT ![w].pc = "run"]
    /\ UNCHANGED << multiprocess, tables, i_lock, e_lock, cs, sw, hist >>

\* the handler returns: line 44, ch.put(MSG_RET)
WorkerReturn(w) ==
    /\ wk[w].pc = "run"
    /\ IF multiprocess THEN
          /\ chan' = [chan EXCEPT ![w].fromW = Append(@, RetMsg(w))]
          /\ wk' = [wk EXCEPT ![w].pc = "done", ![w].ret = TRUE]
       ELSE
          /\ chan' = [chan EXCEPT ![w].putters = Append(@, Waiting(WorkerId, RetMsg(w)))]
          /\ wk' = [wk EXCEPT ![w].pc = "put_ret", ![w].ret = TRUE]
    /\ UNCHANGED << multiprocess, tables, i_lock, e_lock, cs, sw, hist >>

\* the handler raises: line 43 propagates, line 44 never runs
WorkerRaise(w) ==
    /\ wk[w].pc = "run"
    /\ wk' = [wk EXCEPT ![w].pc = "dead"]
    /\ UNCHANGED << multiprocess, tables, i_lock, e_lock, chan, cs, sw, hist >>

\* ------------------------------------------------- gevent.queue.Channel
\* The hub pairs the first waiting getter with the first waiting putter and
\* switches to each in turn: the getter runs on with the item, the putter
\* runs on to its next suspension point (a coordinator or a worker that has
\* put a call goes on to ch.get(); a worker that has put 'ret' exits).
ChannelUnlock(w) ==
    /\ ~multiprocess
    /\ chan[w].putters # << >>
    /\ chan[w].getters # << >>
    /\ LET g == Head(chan[w].getters)
           p == Head(chan[w].putters).who
           item == Head(chan[w].putters).item
           pGets == p # WorkerId \/ wk[w].pc = "put"
       IN
       /\ chan' = [chan EXCEPT ![w].putters = Tail(@),
                               ![w].getters = IF pGets THEN Append(Tail(@), p) ELSE Tail(@)]
       /\ cs' = [c \in Callers |->
                   IF c = g THEN AfterGet(cs[c], item)
                   ELSE IF c = p THEN [cs[c] EXCEPT !.pc = "st_get"]
                   ELSE cs[c]]
       /\ wk' = [wk EXCEPT ![w].pc =
                   IF g = WorkerId THEN "run"
                   ELSE IF p = WorkerId THEN (IF @ = "put_ret" THEN "done" ELSE "get")
                   ELSE @]
       /\ instances' = IF g # WorkerId THEN InstancesAfterGet(cs[g]) ELSE instances
       /\ events' = IF g # WorkerId THEN EventsAfterGet(cs[g], item) ELSE events
       /\ retBy' = IF g # WorkerId THEN RetByAfterGet(cs[g], item) ELSE retBy
    /\ UNCHANGED << multiprocess, instance_id, event_id, i_lock, e_lock, sw,
                    started, allocated, evInst, closedDone >>

\* ---------------------------------------------- multiprocessing.Pipe
\* Connection.recv of the coordinator end returns the oldest message
PipeRecv(c) ==
    /\ multiprocess
    /\ cs[c].pc \in {"he_get", "st_get"}
    /\ chan[cs[c].ch].fromW # << >>
    /\ LET item == Head(chan[cs[c].ch].fromW) IN
       /\ cs' = [cs EXCEPT ![c] = AfterGet(cs[c], item)]
       /\ instances' = InstancesAfterGet(cs[c])
       /\ events' = EventsAfterGet(cs[c], item)
       /\ retBy' = RetByAfterGet(cs[c], item)
    /\ chan' = [chan EXCEPT ![cs[c].ch].fromW = Tail(@)]
    /\ UNCHANGED << multiprocess, instance_id, event_id, i_lock, e_lock, wk, sw,
                    started, allocated, evInst, closedDone >>

\* the child end is closed once neither the finished task nor the
\* handle_event frame that made the pipe refers to it
PipeClose(w) ==
    /\ multiprocess
    /\ ~chan[w].closed
    /\ wk[w].pc \in {"done", "dead", "none"}
    /\ ~\E c \in Callers : cs[c].pc = "he_get" /\ cs[c].ch = w
    /\ chan' = [chan EXCEPT ![w].closed = TRUE]
    /\ UNCHANGED << multiprocess, tables, i_lock, e_lock, wk, cs, sw, hist >>

\* recv on a drained pipe whose other end is closed raises EOFError
StepRecvEOF(c) ==
    /\ multiprocess
    /\ cs[c].pc = "st_get"
    /\ chan[cs[c].ch].closed
    /\ chan[cs[c].ch].fromW = << >>
    /\ cs' = [cs EXCEPT ![c] = Ret(Res("step", "EOFError", cs[c].eid, NoMsg))]
    /\ UNCHANGED << multiprocess, tables, i_lock, e_lock, chan, wk, sw, hist >>

\* ---------------------------------------------------------- specifications
InstanceOps(c) ==
    \/ GetStatus(c)
    \/ GetPluginInfo(c)
    \/ StartInstance(c)
    \/ InstanceStatus(c)
    \/ CloseInstance(c)
    \/ ReleaseI(c)
    \/ Return(c)

EventOps(c) ==
    \/ HandleEvent(c)
    \/ ReleaseE(c)
    \/ StepCall(c)
    \/ PipeRecv(c)
    \/ StepRecvEOF(c)

WorkerOps(w) ==
    \/ WorkerCall(w)
    \/ WorkerRecv(w)
    \/ WorkerReturn(w)
    \/ WorkerRaise(w)
    \/ ChannelUnlock(w)
    \/ PipeClose(w)

Sweeper ==
    \/ SweeperScan
    \/ SweeperRelease

\* the instance table alone: administration calls, the sweeper and time
NextInst ==
    \/ \E c \in Callers : InstanceOps(c)
    \/ Sweeper
    \/ Tick

SpecInst == Init /\ [][NextInst]_vars

\* the life of an instance: the calls that take i_lock, the sweeper and time
NextLife ==
    \/ \E c \in Callers : StartInstance(c) \/ CloseInstance(c) \/ GetStatus(c)
    \/ \E c \in Callers : ReleaseI(c)
    \/ Sweeper
    \/ Tick

SpecLife == Init /\ [][NextLife]_vars

\* Time passes, the sweeper greenlet is scheduled and gets the semaphore
\* when it keeps becoming free, and a wrapper that has finished releases.
FairLife ==
    /\ SpecLife
    /\ WF_vars(Tick)
    /\ SF_vars(SweeperScan)
    /\ WF_vars(SweeperRelease)
    /\ \A c \in Callers : WF_vars(ReleaseI(c))

\* the continuation protocol alone, on instances that are started and stay
NextEv ==
    \/ instance_id = 0 /\ \E c \in Callers : StartInstance(c)
    \/ \E c \in Callers : ReleaseI(c) \/ Return(c)
    \/ \E c \in Callers : EventOps(c)
    \/ \E w \in Channels : WorkerOps(w)

SpecEv == Init /\ [][NextEv]_vars

\* The coordinator's own steps are scheduled fairly: a wrapper that has
\* finished releases, a message that is there is received, the hub pairs
\* waiting greenlets.  Nothing is assumed of the handlers: a phase handler
\* may run for ever without calling out or finishing.
FairEv ==
    /\ SpecEv
    /\ \A c \in Callers : WF_vars(ReleaseE(c)) /\ WF_vars(ReleaseI(c))
    /\ \A c \in Callers : WF_vars(PipeRecv(c)) /\ WF_vars(Return(c))
    /\ \A w \in 1..MaxEvents : WF_vars(w \in Channels /\ ChannelUnlock(w))

\* one instance and one event against the sweeper and the clock
NextSweep ==
    \/ instance_id = 0 /\ \E c \in Callers : StartInstance(c)
    \/ \E c \in Callers : CloseInstance(c) \/ ReleaseI(c) \/ Return(c)
    \/ event_id = 0 /\ \E c \in Callers : HandleEvent(c)
    \/ \E c \in Callers : ReleaseE(c) \/ StepCall(c) \/ PipeRecv(c) \/ StepRecvEOF(c)
    \/ \E w \in Channels : WorkerOps(w)
    \/ Sweeper
    \/ Tick

SpecSweep == Init /\ [][NextSweep]_vars

\* every user of the two semaphores, on one instance and one event
NextLocks ==
    \/ NextSweep
    \/ \E c \in Callers : GetStatus(c)

SpecLocks == Init /\ [][NextLocks]_vars

Next ==
    \/ \E c \in Callers : InstanceOps(c)
    \/ \E c \in Callers : EventOps(c)
    \/ \E w \in Channels : WorkerOps(w)
    \/ Sweeper
    \/ Tick

Spec == Init /\ [][Next]_vars

TypeOK ==
    /\ i_lock \in Callers \cup {SweeperId, NoOne}
    /\ e_lock \in Callers \cup {NoOne}
    /\ instance_id \in 0..MaxInstances
    /\ event_id \in 0..MaxEvents

\* ------------------------------------------------------------------ claims
Begun == {allocated[i] : i \in 1..Len(allocated)}
TerminalResumed(eid) == eid \in DOMAIN retBy /\ retBy[eid] = "step"

\* C1: every event id that handle_event has recorded is in the Continuation
\* Table until a resume returns the terminal sentinel for it, and is not in
\* the table in any state after that resume has returned.
ContinuationLifetime ==
    \A eid \in Begun :
        IF TerminalResumed(eid) THEN eid \notin DOMAIN events
                                ELSE eid \in DOMAIN events

\* a resume has just returned 'ret' for one event while another is pending
ContinuationLifetimeWitness ==
    /\ \E c \in Callers : cs[c].pc = "ret" /\ cs[c].r.op = "step"
                          /\ IsTerminal(cs[c].r.data) /\ TerminalResumed(cs[c].r.id)
    /\ \E eid \in Begun : ~TerminalResumed(eid) /\ wk[events[eid]].pc = "get"

\* C2: once an operation (handle_event or step) that received the terminal
\* sentinel for an event has finished, the Continuation Table does not
\* contain that event id.
RetiredWhenSentinelSeen ==
    \A eid \in DOMAIN retBy : eid \notin DOMAIN events

\* C3: a step on an event id that is not in the Continuation Table (never
\* created, or retired) ends with the not-found error, puts nothing on any
\* channel and leaves the table as it was.
StepUnknownFails ==
    [][\A c \in Callers :
          (cs[c].pc = "idle" /\ cs'[c].pc = "ret" /\ cs'[c].r.op = "step"
              /\ cs'[c].r.id \notin DOMAIN events)
          => (cs'[c].r.err = "NotFound" /\ chan' = chan /\ wk' = wk
              /\ events' = events)]_vars

\* a step on a retired event id has failed with not-found
StepUnknownFailsWitness ==
    \E c \in Callers : /\ cs[c].pc = "ret" /\ cs[c].r.op = "step"
                       /\ cs[c].r.err = "NotFound"
                       /\ TerminalResumed(cs[c].r.id)

\* C4: the ids returned by successful start_instance calls are strictly
\* increasing, hence pairwise distinct and never reused, whatever closes,
\* sweeps, status reads and failed starts come in between.
InstanceIdsIncrease ==
    \A i, j \in 1..Len(started) : i < j => started[i] < started[j]

\* a second start after the first instance was closed, and one after a failed start
InstanceIdsIncreaseWitness ==
    /\ Len(started) = 2
    /\ started[1] \in closedDone
    /\ \E c \in Callers : cs[c].pc = "rel_i" /\ cs[c].r.op = "start_instance"
                          /\ cs[c].r.err = "none" /\ cs[c].r.id = started[2]

\* C5: the event ids taken by handle_event are strictly increasing, and the
\* live continuations are one per event id: every channel made is recorded
\* under its own id and no two ids share a channel.
EventIdsIncrease ==
    /\ \A i, j \in 1..Len(allocated) : i < j => allocated[i] < allocated[j]
    /\ \A e1, e2 \in DOMAIN events : e1 # e2 => events[e1] # events[e2]
    /\ Len(chan) = Cardinality(Begun)

\* a second handle_event is waiting for its worker while the first event is pending
EventIdsIncreaseWitness ==
    /\ Len(allocated) = 2
    /\ Cardinality(DOMAIN events) = 2
    /\ \E c \in Callers : cs[c].pc = "he_get" /\ cs[c].eid = allocated[2]

SweepStep == sw.pc = "sleep" /\ sw'.pc = "release"
Known == 0..(MaxInstances - 1)

\* C7: an instance idle for longer than the ttl is eventually out of the
\* Instance Table; a sweep removes only instances idle for longer than the
\* ttl; and an id that is out of the table stays out, so it is removed once
\* and instance_status answers not-found from then on.
IdleEvicted ==
    /\ \A iid \in Known :
          (iid \in DOMAIN instances /\ is_expired(instances[iid]))
              ~> (iid \notin DOMAIN instances)
    /\ [][SweepStep => \A iid \in DOMAIN instances :
              iid \notin DOMAIN instances' => is_expired(instances[iid])]_vars
    /\ [][\A iid \in Known :
              (iid < instance_id /\ instance_status(iid).err = "NotFound")
                  => (iid \notin DOMAIN instances')]_vars

\* a sweep has just evicted one instance and left a younger one in place
IdleEvictedWitness ==
    /\ sw.pc = "release"
    /\ \E iid \in Known : iid < instance_id /\ iid \notin DOMAIN instances
                          /\ iid \notin closedDone
    /\ \E iid \in DOMAIN instances : ~is_expired(instances[iid])

\* the event is between its begin and its terminal resume
InFlight(eid) ==
    /\ eid \in DOMAIN events
    /\ eid \notin DOMAIN retBy
    /\ wk[events[eid]].pc \notin {"none", "dead"}

\* C8: no sweep removes an instance that has an event in flight.
SweepSparesInFlight ==
    [][SweepStep => \A eid \in DOMAIN events :
          (InFlight(eid) /\ evInst[eid] \in DOMAIN instances)
              => evInst[eid] \in DOMAIN instances']_vars

\* C9: no caller blocked in ch.get or ch.put holds i_lock or e_lock.
NoLockWhileBlocked ==
    \A c \in Callers :
        cs[c].pc \in {"he_get", "st_get", "st_put"} => (i_lock # c /\ e_lock # c)

\* C10: whoever inserts into or deletes from the Instance Table holds i_lock
\* while doing so, and whoever inserts into or deletes from the Continuation
\* Table holds e_lock while doing so.
MutationsUnderLock ==
    [][/\ DOMAIN instances' # DOMAIN instances =>
            \/ i_lock' = SweeperId /\ sw' # sw
            \/ \E c \in Callers : cs'[c] # cs[c] /\ i_lock' = c
       /\ DOMAIN events' # DOMAIN events =>
            \E c \in Callers : cs'[c] # cs[c] /\ (e_lock = c \/ e_lock' = c)]_vars

\* C11: a worker whose phase handler has finished, by returning or by
\* raising, has emitted MSG_RET on its channel.
HandlerEndEmitsRet ==
    \A w \in Channels : wk[w].pc \in {"done", "dead"} => wk[w].ret

\* C12: the Data a resume returns is a message of the worker, never a
\* two-slot result that a resume has put on the channel.
ResumeDataIsWorkerMessage ==
    \A c \in Callers :
        (cs[c].pc = "ret" /\ cs[c].r.op = "step" /\ cs[c].r.err = "none")
            => cs[c].r.data.kind \in {"call", MSG_RET}

\* the channel w was made for the event allocated[w]
OwnWorker(eid, item) ==
    /\ item.kind \in {"call", MSG_RET}
    /\ item.w \in 1..Len(allocated)
    /\ allocated[item.w] = eid

\* the event is in the table and its handler has not finished
Live(eid) ==
    /\ eid \in DOMAIN events
    /\ wk[events[eid]].pc \in {"run", "put", "get", "put_ret"}

\* C13: a resume on an event whose handler is still live returns without error the
\* next message of that event's worker under the same event id, and the
\* event is in the table afterwards exactly if that message is not MSG_RET.
ResumeContract ==
    [][\A c \in Callers :
          (/\ cs[c].pc # "ret" /\ cs'[c].pc = "ret"
           /\ cs'[c].r.op = "step" /\ Live(cs'[c].r.id))
              => /\ cs'[c].r.err = "none"
                 /\ cs'[c].r.id = cs[c].eid
                 /\ OwnWorker(cs'[c].r.id, cs'[c].r.data)
                 /\ (cs'[c].r.id \in DOMAIN events')
                        <=> ~IsTerminal(cs'[c].r.data)]_vars

\* C14: get_plugin_info and start_instance fail on a name that is not
\* registered with the not-found error, so the only errors they end with are
\* that one and, for start_instance, those of the configuration and of the
\* instantiation hook.
UnknownNameIsNotFound ==
    \A c \in Callers :
        /\ cs[c].r.op = "get_plugin_info" => cs[c].r.err \in {"none", "NotFound"}
        /\ cs[c].r.op = "start_instance" =>
               cs[c].r.err \in {"none", "NotFound", "JSONDecodeError", "Exception"}

\* no get_status, start_instance, close_instance, handle_event or sweep is
\* between its acquire and its release
Quiet ==
    /\ \A c \in Callers : cs[c].pc \notin {"rel_i", "rel_e", "he_get"}
    /\ sw.pc # "release"

\* C15: whenever no lock-wrapped operation and no sweep is in progress,
\* i_lock and e_lock are both free.
LocksFreeWhenQuiet ==
    Quiet => (i_lock = NoOne /\ e_lock = NoOne)

\* nothing is in progress after a start that returned, a close that ended and
\* a handle_event that raised on an unknown phase
LocksFreeWhenQuietWitness ==
    /\ Quiet
    /\ i_lock = NoOne /\ e_lock = NoOne
    /\ Len(started) > 0
    /\ closedDone # {}
    /\ \E w \in Channels : wk[w].pc = "none"

\* C16: a caller acquires e_lock only while it does not hold i_lock and
\* i_lock only while it does not hold e_lock, and whoever holds a lock is
\* past every acquire of its operation: the holder of i_lock is about to
\* release it, the holder of e_lock is waiting on its channel or about to
\* release; so no holder waits for a lock.
NoNestedAcquire ==
    /\ [](\A c \in Callers :
             /\ i_lock = c => cs[c].pc = "rel_i"
             /\ e_lock = c => cs[c].pc \in {"he_get", "rel_e"})
    /\ [](i_lock = SweeperId => sw.pc = "release")
    /\ [][\A c \in Callers :
             /\ (e_lock' = c /\ e_lock # c) => i_lock # c
             /\ (i_lock' = c /\ i_lock # c) => e_lock # c]_vars

\* both locks are held at once, by two different callers
NoNestedAcquireWitness ==
    \E c, d \in Callers :
        /\ c # d
        /\ e_lock = c /\ cs[c].pc = "he_get"
        /\ i_lock = d /\ cs[d].pc = "rel_i"

\* the handler of the event that caller c has begun has raised
HandlerRaised(c) == cs[c].pc = "he_get" /\ wk[cs[c].ch].pc = "dead"

\* C17: under fair scheduling of the coordinator, no begin is kept waiting
\* for ever by the handler of another event that is still running: e_lock,
\* which every begin needs, becomes free again whenever it is held, unless
\* the holder's own handler has raised.
BeginNotStarved ==
    \A c \in Callers : (e_lock = c) ~> (e_lock # c \/ HandlerRaised(c))

\* C18: a handle_event that fails leaves the Continuation Table and the
\* event-id counter as they were.
FailedBeginLeavesNoTrace ==
    [][\A c \in Callers :
          (/\ cs[c].pc = "idle" /\ cs'[c].pc = "rel_e"
           /\ cs'[c].r.op = "handle_event" /\ cs'[c].r.err # "none")
              => (events' = events /\ event_id' = event_id)]_vars

\* C19: a start_instance that fails on its configuration or in the
\* instantiation hook leaves the Instance Table and the counter as they
\* were, every successful start returns the counter's value, and the ids
\* handed out have no gap.
FailedStartLeavesNoTrace ==
    /\ [][\A c \in Callers :
             (/\ cs[c].pc = "idle" /\ cs'[c].pc = "rel_i"
              /\ cs'[c].r.op = "start_instance")
                 => IF cs'[c].r.err = "none"
                    THEN cs'[c].r.id = instance_id
                    ELSE instances' = instances /\ instance_id' = instance_id]_vars
    /\ [](\A i \in 1..Len(started) : started[i] = i - 1)
    /\ [](DOMAIN instances \subseteq {started[i] : i \in 1..Len(started)})

\* a start has just failed after an earlier one succeeded, and the table
\* holds exactly the earlier instance
FailedStartLeavesNoTraceWitness ==
    \E c \in Callers :
        /\ cs[c].pc = "rel_i"
        /\ cs[c].r.op = "start_instance"
        /\ cs[c].r.err \in {"JSONDecodeError", "Exception"}
        /\ instance_id = 1
        /\ DOMAIN instances = {0}

====
